---- MODULE Spec2Model ----
(***************************************************************************)
(* Weather ingestion pipeline: scripts/fetch_weather.py (fw),              *)
(* scripts/fetch_and_upload.py (fu), scripts/complete_pipeline.py (cp) and *)
(* scripts/load_to_bigquery.py (lb).                                       *)
(*                                                                         *)
(* Runs are sequential processes over shared durable state: the local data *)
(* directory, the bucket and the warehouse.  Every datetime.utcnow() of    *)
(* the code is a separate read of the wall clock, which may have advanced  *)
(* since the previous read.                                                *)
(*                                                                         *)
(* Encodings.  An instant is [sec, us] (epoch seconds, microseconds).  A   *)
(* formatted date/time string is the tuple of its numeric fields, e.g.     *)
(* '%Y-%m-%d' is <<Y, M, D>>.  Python's None is the empty sequence and a   *)
(* present value x is <<x>>.  A JSON file is the sequence of its lines.    *)
(***************************************************************************)
EXTENDS Integers, Sequences, FiniteSets, TLC

\* ---- bounds ----
\* Epoch second of the first clock value, 2024-12-31T23:59:59Z: one second
\* before a UTC midnight that also changes month and year.
Clock0 == 1735689599
\* Seconds the wall clock may advance over the whole behaviour.
Horizon == 1
\* Number of script runs in a behaviour.
MaxRuns == 2

\* Amounts (microseconds) by which the clock may have advanced between two reads.
Deltas == {0, 1000000}

None == <<>>
Some(x) == <<x>>

\* ---- wall clock and datetime formatting ----

Advance(t, d) ==
    LET tot == t.us + d
    IN  [sec |-> t.sec + (tot \div 1000000), us |-> tot % 1000000]

InWindow(t) == t.sec <= Clock0 + Horizon

\* t2 - t1 >= one second
AtLeastOneSecondApart(t1, t2) ==
    \/ t2.sec - t1.sec >= 2
    \/ t2.sec - t1.sec = 1 /\ t2.us >= t1.us

\* Proleptic Gregorian calendar date <<Y, M, D>> of a day number counted from
\* 1970-01-01, as datetime computes .year, .month and .day.
ymd(days) ==
    LET z   == days + 719468
        era == z \div 146097
        doe == z - era * 146097
        yoe == (doe - (doe \div 1460) + (doe \div 36524) - (doe \div 146096)) \div 365
        doy == doe - (365 * yoe + (yoe \div 4) - (yoe \div 100))
        mp  == (5 * doy + 2) \div 153
        d   == doy - ((153 * mp + 2) \div 5) + 1
        m   == IF mp < 10 THEN mp + 3 ELSE mp - 9
        y   == yoe + era * 400 + (IF m <= 2 THEN 1 ELSE 0)
    IN  <<y, m, d>>

\* <<H, M, S>> of an instant
hms(t) ==
    LET sod == t.sec % 86400
    IN  <<sod \div 3600, (sod % 3600) \div 60, sod % 60>>

\* datetime.isoformat(): YYYY-MM-DDTHH:MM:SS.ffffff
isoformat(t) == ymd(t.sec \div 86400) \o hms(t) \o <<t.us>>

\* strftime('%Y-%m-%d')
strftime_date(t) == ymd(t.sec \div 86400)

\* strftime('%H:%M:%S')
strftime_time(t) == hms(t)

\* strftime('%Y%m%d_%H%M%S')
strftime_stamp(t) == ymd(t.sec \div 86400) \o hms(t)

\* ---- provider responses ----

Sections == {"main", "sys", "weather", "coord"}

\* transport: the request itself failed; status: HTTP status; json: the body
\* parses as JSON; sections: required top-level sections the body contains
\* ("weather" stands for a non-empty weather list).
Responses ==
    [transport : {TRUE}, status : {0}, json : {FALSE}, sections : {{}}]
    \cup [transport : {FALSE}, status : {200, 401}, json : {FALSE}, sections : {{}}]
    \cup [transport : {FALSE}, status : {200, 401}, json : {TRUE}, sections : SUBSET Sections]

\* GCP_PROJECT_ID and GCS_BUCKET_NAME of the process environment
Envs == [project : BOOLEAN, bucket : BOOLEAN]

CITY == "Paris"
BIGQUERY_DATASET == "weather_data"
BIGQUERY_TABLE == "weather_raw"


\* ---- names of artifacts ----

\* weather_<YYYYMMDD_HHMMSS>.json
FileName(stamp) == [prefix |-> "weather", stamp |-> stamp, ext |-> "json"]

\* raw/{year}/{month:02d}/{day:02d}/{basename}
BlobPath(date, basename) ==
    [root |-> "raw", year |-> date[1], month |-> date[2], day |-> date[3],
     name |-> basename]

\* every object of the bucket matches raw/*/*/*/*.json
RECURSIVE LinesOf(_, _)
LinesOf(objs, paths) ==
    IF paths = {} THEN <<>>
    ELSE LET p == CHOOSE q \in paths : TRUE
         IN  objs[p] \o LinesOf(objs, paths \ {p})

\* ---- scripts/complete_pipeline.py ----

cp_fetch_weather(resp, t1, t2, t3) ==
    IF resp.transport THEN None
    ELSE IF resp.status # 200 THEN None
    ELSE IF ~resp.json THEN None
    ELSE IF "main" \notin resp.sections THEN None
    ELSE IF ~({"sys", "weather", "coord"} \subseteq resp.sections) THEN None
    ELSE Some([city      |-> CITY,
               timestamp |-> isoformat(t1),
               date      |-> strftime_date(t2),
               time      |-> strftime_time(t3)])

\* main without the "if not weather_data: return" of lines 162-164
cp_main_fetched_noreturn(wd) == "save"

\* main, lines 161-164: a run without a record returns at once
cp_main_fetched(wd) == IF wd = None THEN "done" ELSE "save"

cp_save_locally(wd, t, fs_ok, fs) ==
    LET filename == FileName(strftime_stamp(t))
    IN  IF ~fs_ok
        THEN [raised |-> TRUE, value |-> None, files |-> fs, effects |-> {}]
        ELSE [raised  |-> FALSE,
              value   |-> Some(filename),
              files   |-> (filename :> wd) @@ fs,
              effects |-> {"file_written"}]

\* upload_to_gcs skipping only when both settings are absent ("and" for "or")
cp_upload_to_gcs_and(local_file, wd, e, t, gcs_ok, fs, objs) ==
    IF ~e.project /\ ~e.bucket
    THEN [value |-> None, objects |-> objs, effects |-> {}]
    ELSE LET blob_path == BlobPath(strftime_date(t), local_file)
         IN  IF ~gcs_ok
             THEN [value |-> None, objects |-> objs, effects |-> {"gcs_call"}]
             ELSE [value   |-> Some(blob_path),
                   objects |-> (blob_path :> fs[local_file]) @@ objs,
                   effects |-> {"gcs_call"}]

cp_upload_to_gcs(local_file, wd, e, t, gcs_ok, fs, objs) ==
    IF ~e.project \/ ~e.bucket
    THEN [value |-> None, objects |-> objs, effects |-> {}]
    ELSE LET blob_path == BlobPath(strftime_date(t), local_file)
         IN  IF ~gcs_ok
             THEN [value |-> None, objects |-> objs, effects |-> {"gcs_call"}]
             ELSE [value   |-> Some(blob_path),
                   objects |-> (blob_path :> fs[local_file]) @@ objs,
                   effects |-> {"gcs_call"}]

\* main without the "if gcs_uri:" of line 173
cp_main_uploaded_noguard(uri) == "load"

\* main, lines 173-174: the load runs only for a staged object
cp_main_uploaded(uri) == IF uri = None THEN "done" ELSE "load"

\* load_to_bigquery with WRITE_TRUNCATE for WRITE_APPEND
cp_load_to_bigquery_truncate(gcs_uri, wh, objs, job_ok) ==
    IF gcs_uri = None
    THEN [raised |-> FALSE, warehouse |-> wh, effects |-> {}]
    ELSE IF ~job_ok \/ BIGQUERY_TABLE \notin wh.tables
         THEN [raised |-> FALSE, warehouse |-> wh,
               effects |-> {"bq_load", "bq_load_failed", "hint"}]
         ELSE [raised    |-> FALSE,
               warehouse |-> [wh EXCEPT !.rows = objs[gcs_uri[1]]],
               effects   |-> {"bq_load"}]

cp_load_to_bigquery(gcs_uri, wh, objs, job_ok) ==
    IF gcs_uri = None
    THEN [raised |-> FALSE, warehouse |-> wh, effects |-> {}]
    ELSE IF ~job_ok \/ BIGQUERY_TABLE \notin wh.tables
         THEN [raised |-> FALSE, warehouse |-> wh,
               effects |-> {"bq_load", "bq_load_failed", "hint"}]
         ELSE [raised    |-> FALSE,
               warehouse |-> [wh EXCEPT !.rows = @ \o objs[gcs_uri[1]]],
               effects   |-> {"bq_load"}]

\* ---- scripts/fetch_and_upload.py ----

fu_fetch_weather(resp, t1, t2, t3) ==
    IF resp.transport THEN None
    ELSE IF resp.status # 200 THEN None
    ELSE IF ~resp.json THEN None
    ELSE IF "main" \notin resp.sections THEN None
    ELSE IF ~({"sys", "weather", "coord"} \subseteq resp.sections) THEN None
    ELSE Some([city      |-> CITY,
               timestamp |-> isoformat(t1),
               date      |-> strftime_date(t2),
               time      |-> strftime_time(t3)])

fu_main_fetched(wd) == IF wd = None THEN "done" ELSE "save"

fu_save_locally(wd, t, fs_ok, fs) ==
    LET filename == FileName(strftime_stamp(t))
    IN  IF ~fs_ok
        THEN [raised |-> TRUE, value |-> None, files |-> fs, effects |-> {}]
        ELSE [raised  |-> FALSE,
              value   |-> Some(filename),
              files   |-> (filename :> wd) @@ fs,
              effects |-> {"file_written"}]

\* returns True / False; path is the object written, None when none was
fu_upload_to_gcs(local_file, wd, e, t, gcs_ok, fs, objs) ==
    IF ~e.project \/ ~e.bucket
    THEN [value |-> FALSE, path |-> None, objects |-> objs, effects |-> {}]
    ELSE LET blob_path == BlobPath(strftime_date(t), local_file)
         IN  IF ~gcs_ok
             THEN [value |-> FALSE, path |-> None, objects |-> objs,
                   effects |-> {"gcs_call"}]
             ELSE [value   |-> TRUE,
                   path    |-> Some(blob_path),
                   objects |-> (blob_path :> fs[local_file]) @@ objs,
                   effects |-> {"gcs_call"}]

\* ---- scripts/fetch_weather.py ----

\* The minimal script fetches and saves in one function, with no handler
\* around either.  record: the weather_data built at line 32 (it has no date
\* and time keys: they are <<>>); raised: an exception left the function.
fw_fetch_weather(resp, t1, t2, fs_ok, fs) ==
    LET failed(r) == [raised |-> r, record |-> None, files |-> fs,
                      name |-> None, effects |-> {}]
        wd        == [city      |-> CITY,
                      timestamp |-> isoformat(t1),
                      date      |-> <<>>,
                      time      |-> <<>>]
        filename  == FileName(strftime_stamp(t2))
    IN  IF resp.transport THEN failed(TRUE)
        ELSE IF ~resp.json THEN failed(TRUE)
        ELSE IF resp.status # 200 THEN failed(FALSE)
        ELSE IF "main" \notin resp.sections THEN failed(FALSE)
        ELSE IF "weather" \notin resp.sections THEN failed(TRUE)
        ELSE IF ~fs_ok
             THEN [raised |-> TRUE, record |-> Some(wd), files |-> fs,
                   name |-> None, effects |-> {}]
             ELSE [raised  |-> FALSE,
                   record  |-> Some(wd),
                   files   |-> (filename :> Some(wd)) @@ fs,
                   name    |-> Some(filename),
                   effects |-> {"file_written"}]

\* ---- scripts/load_to_bigquery.py ----

lb_create_dataset(wh) ==
    IF BIGQUERY_DATASET \in wh.datasets
    THEN [raised |-> FALSE, warehouse |-> wh]
    ELSE [raised |-> FALSE,
          warehouse |-> [wh EXCEPT !.datasets = @ \cup {BIGQUERY_DATASET}]]

\* create_table without the get_table lookup: client.create_table answers
\* Conflict for a table that exists
lb_create_table_nolookup(wh) ==
    IF BIGQUERY_DATASET \notin wh.datasets \/ BIGQUERY_TABLE \in wh.tables
    THEN [raised |-> TRUE, warehouse |-> wh]
    ELSE [raised |-> FALSE,
          warehouse |-> [wh EXCEPT !.tables = @ \cup {BIGQUERY_TABLE}]]

\* client.create_table answers NotFound when the dataset does not exist
lb_create_table(wh) ==
    IF BIGQUERY_TABLE \in wh.tables
    THEN [raised |-> FALSE, warehouse |-> wh]
    ELSE IF BIGQUERY_DATASET \notin wh.datasets
         THEN [raised |-> TRUE, warehouse |-> wh]
         ELSE [raised |-> FALSE,
               warehouse |-> [wh EXCEPT !.tables = @ \cup {BIGQUERY_TABLE}]]

\* gcs_uri = None loads gs://<bucket>/raw/*/*/*/*.json
lb_load_from_gcs_to_bigquery(gcs_uri, wh, objs, job_ok) ==
    LET lines == IF gcs_uri = None
                 THEN LinesOf(objs, DOMAIN objs)
                 ELSE objs[gcs_uri[1]]
    IN  IF ~job_ok \/ BIGQUERY_TABLE \notin wh.tables
        THEN [raised |-> TRUE, warehouse |-> wh,
              effects |-> {"bq_load", "bq_load_failed"}]
        ELSE [raised    |-> FALSE,
              warehouse |-> [wh EXCEPT !.rows = @ \o lines],
              effects   |-> {"bq_load"}]

lb_query_latest_data(wh) == [raised |-> BIGQUERY_TABLE \notin wh.tables]

\* main, lines 153-155
lb_main_configured(e) == IF ~e.project \/ ~e.bucket THEN "done" ELSE "dataset"

\* ---- state ----

VARIABLES
    clock,         \* last value read from the wall clock
    files,         \* data directory: file name -> lines
    objects,       \* bucket: object path -> lines
    warehouse,     \* [datasets, tables, rows]
    run,           \* number of runs started
    script,        \* script of the current run
    env,           \* its environment
    pc,            \* position of the current run in its main
    weather_data,  \* main's weather_data
    local_file,    \* main's local_file
    gcs_uri,       \* main's gcs_uri
    effects,       \* external calls the current run has made
    raised,        \* function whose exception ended the current run
    history,       \* artifacts saved so far, one entry per save
    lastCall       \* last setup operation invoked on its own

vars == <<clock, files, objects, warehouse, run, script, env, pc, weather_data,
          local_file, gcs_uri, effects, raised, history, lastCall>>

Warehouses ==
    {[datasets |-> {}, tables |-> {}, rows |-> <<>>],
     [datasets |-> {BIGQUERY_DATASET}, tables |-> {}, rows |-> <<>>],
     [datasets |-> {BIGQUERY_DATASET}, tables |-> {BIGQUERY_TABLE}, rows |-> <<>>]}

NoCall ==
    [op |-> "none", raised |-> FALSE, second |-> FALSE,
     before |-> [datasets |-> {}, tables |-> {}, rows |-> <<>>],
     after  |-> [datasets |-> {}, tables |-> {}, rows |-> <<>>]]

Finished == {"idle", "done", "crashed"}

Init ==
    /\ clock = [sec |-> Clock0, us |-> 500000]
    /\ files = <<>>
    /\ objects = <<>>
    /\ warehouse \in Warehouses
    /\ run = 0
    /\ script = "none"
    /\ env = [project |-> FALSE, bucket |-> FALSE]
    /\ pc = "idle"
    /\ weather_data = None
    /\ local_file = None
    /\ gcs_uri = None
    /\ effects = {}
    /\ raised = "none"
    /\ history = <<>>
    /\ lastCall = NoCall

\* ---- complete_pipeline.py: main ----

cp_start ==
    /\ pc \in Finished
    /\ run < MaxRuns
    /\ run' = run + 1
    /\ script' = "cp"
    /\ env' \in Envs
    /\ pc' = "fetch"
    /\ weather_data' = None
    /\ local_file' = None
    /\ gcs_uri' = None
    /\ effects' = {}
    /\ raised' = "none"
    /\ lastCall' = NoCall
    /\ UNCHANGED <<clock, files, objects, warehouse, history>>

cp_main_fetch ==
    /\ script = "cp"
    /\ pc = "fetch"
    /\ \E resp \in Responses, d1, d2, d3 \in Deltas :
         LET t1 == Advance(clock, d1)
             t2 == Advance(t1, d2)
             t3 == Advance(t2, d3)
             wd == cp_fetch_weather(resp, t1, t2, t3)
         IN  /\ InWindow(t3)
             /\ clock' = t3
             /\ weather_data' = wd
             /\ pc' = cp_main_fetched(wd)
             /\ history' = IF wd = None THEN history
                           ELSE Append(history, [at |-> t1, name |-> None, blob |-> None])
    /\ lastCall' = NoCall
    /\ UNCHANGED <<files, objects, warehouse, run, script, env, local_file,
                   gcs_uri, effects, raised>>

cp_main_save ==
    /\ script = "cp"
    /\ pc = "save"
    /\ \E d \in Deltas, fs_ok \in BOOLEAN :
         LET t == Advance(clock, d)
             r == cp_save_locally(weather_data, t, fs_ok, files)
         IN  /\ InWindow(t)
             /\ clock' = t
             /\ files' = r.files
             /\ local_file' = r.value
             /\ effects' = effects \cup r.effects
             /\ raised' = IF r.raised THEN "save_locally" ELSE raised
             /\ pc' = IF r.raised THEN "crashed" ELSE "upload"
             /\ history' = IF r.raised \/ history = <<>> THEN history
                           ELSE [history EXCEPT ![Len(history)].name = r.value]
    /\ lastCall' = NoCall
    /\ UNCHANGED <<objects, warehouse, run, script, env, weather_data, gcs_uri>>

cp_main_upload ==
    /\ script = "cp"
    /\ pc = "upload"
    /\ \E d \in Deltas, gcs_ok \in BOOLEAN :
         LET t == Advance(clock, d)
             r == cp_upload_to_gcs(local_file[1], weather_data, env, t, gcs_ok,
                                   files, objects)
         IN  /\ InWindow(t)
             /\ clock' = t
             /\ objects' = r.objects
             /\ gcs_uri' = r.value
             /\ effects' = effects \cup r.effects
             /\ pc' = cp_main_uploaded(r.value)
             /\ history' = IF history = <<>> THEN history
                           ELSE [history EXCEPT ![Len(history)].blob = r.value]
    /\ lastCall' = NoCall
    /\ UNCHANGED <<files, warehouse, run, script, env, weather_data, local_file,
                   raised>>

cp_main_load ==
    /\ script = "cp"
    /\ pc = "load"
    /\ \E job_ok \in BOOLEAN :
         LET r == cp_load_to_bigquery(gcs_uri, warehouse, objects, job_ok)
         IN  /\ warehouse' = r.warehouse
             /\ effects' = effects \cup r.effects
             /\ raised' = IF r.raised THEN "load_to_bigquery" ELSE raised
             /\ pc' = IF r.raised THEN "crashed" ELSE "done"
    /\ lastCall' = NoCall
    /\ UNCHANGED <<clock, files, objects, run, script, env, weather_data,
                   local_file, gcs_uri, history>>

\* ---- fetch_and_upload.py: main ----

fu_start ==
    /\ pc \in Finished
    /\ run < MaxRuns
    /\ run' = run + 1
    /\ script' = "fu"
    /\ env' \in Envs
    /\ pc' = "fetch"
    /\ weather_data' = None
    /\ local_file' = None
    /\ gcs_uri' = None
    /\ effects' = {}
    /\ raised' = "none"
    /\ lastCall' = NoCall
    /\ UNCHANGED <<clock, files, objects, warehouse, history>>

fu_main_fetch ==
    /\ script = "fu"
    /\ pc = "fetch"
    /\ \E resp \in Responses, d1, d2, d3 \in Deltas :
         LET t1 == Advance(clock, d1)
             t2 == Advance(t1, d2)
             t3 == Advance(t2, d3)
             wd == fu_fetch_weather(resp, t1, t2, t3)
         IN  /\ InWindow(t3)
             /\ clock' = t3
             /\ weather_data' = wd
             /\ pc' = fu_main_fetched(wd)
             /\ history' = IF wd = None THEN history
                           ELSE Append(history, [at |-> t1, name |-> None, blob |-> None])
    /\ lastCall' = NoCall
    /\ UNCHANGED <<files, objects, warehouse, run, script, env, local_file,
                   gcs_uri, effects, raised>>

fu_main_save ==
    /\ script = "fu"
    /\ pc = "save"
    /\ \E d \in Deltas, fs_ok \in BOOLEAN :
         LET t == Advance(clock, d)
             r == fu_save_locally(weather_data, t, fs_ok, files)
         IN  /\ InWindow(t)
             /\ clock' = t
             /\ files' = r.files
             /\ local_file' = r.value
             /\ effects' = effects \cup r.effects
             /\ raised' = IF r.raised THEN "save_locally" ELSE raised
             /\ pc' = IF r.raised THEN "crashed" ELSE "upload"
             /\ history' = IF r.raised \/ history = <<>> THEN history
                           ELSE [history EXCEPT ![Len(history)].name = r.value]
    /\ lastCall' = NoCall
    /\ UNCHANGED <<objects, warehouse, run, script, env, weather_data, gcs_uri>>

\* main drops upload_to_gcs's result; gcs_uri keeps the object it wrote
fu_main_upload ==
    /\ script = "fu"
    /\ pc = "upload"
    /\ \E d \in Deltas, gcs_ok \in BOOLEAN :
         LET t == Advance(clock, d)
             r == fu_upload_to_gcs(local_file[1], weather_data, env, t, gcs_ok,
                                   files, objects)
         IN  /\ InWindow(t)
             /\ clock' = t
             /\ objects' = r.objects
             /\ gcs_uri' = r.path
             /\ effects' = effects \cup r.effects
             /\ pc' = "done"
             /\ history' = IF history = <<>> THEN history
                           ELSE [history EXCEPT ![Len(history)].blob = r.path]
    /\ lastCall' = NoCall
    /\ UNCHANGED <<files, warehouse, run, script, env, weather_data, local_file,
                   raised>>

\* ---- fetch_weather.py ----

fw_start ==
    /\ pc \in Finished
    /\ run < MaxRuns
    /\ run' = run + 1
    /\ script' = "fw"
    /\ env' = [project |-> FALSE, bucket |-> FALSE]
    /\ pc' = "fetch"
    /\ weather_data' = None
    /\ local_file' = None
    /\ gcs_uri' = None
    /\ effects' = {}
    /\ raised' = "none"
    /\ lastCall' = NoCall
    /\ UNCHANGED <<clock, files, objects, warehouse, history>>

fw_main_fetch ==
    /\ script = "fw"
    /\ pc = "fetch"
    /\ \E resp \in Responses, d1, d2 \in Deltas, fs_ok \in BOOLEAN :
         LET t1 == Advance(clock, d1)
             t2 == Advance(t1, d2)
             r  == fw_fetch_weather(resp, t1, t2, fs_ok, files)
         IN  /\ InWindow(t2)
             /\ clock' = t2
             /\ weather_data' = r.record
             /\ files' = r.files
             /\ local_file' = r.name
             /\ effects' = effects \cup r.effects
             /\ raised' = IF r.raised THEN "fetch_weather" ELSE raised
             /\ pc' = IF r.raised THEN "crashed" ELSE "done"
             /\ history' = IF r.record = None THEN history
                           ELSE Append(history, [at |-> t1, name |-> r.name, blob |-> None])
    /\ lastCall' = NoCall
    /\ UNCHANGED <<objects, warehouse, run, script, env, gcs_uri>>

\* ---- load_to_bigquery.py: main ----

lb_start ==
    /\ pc \in Finished
    /\ run < MaxRuns
    /\ run' = run + 1
    /\ script' = "lb"
    /\ \E e \in Envs :
         /\ env' = e
         /\ pc' = lb_main_configured(e)
    /\ weather_data' = None
    /\ local_file' = None
    /\ gcs_uri' = None
    /\ effects' = {}
    /\ raised' = "none"
    /\ lastCall' = NoCall
    /\ UNCHANGED <<clock, files, objects, warehouse, history>>

lb_main_dataset ==
    /\ script = "lb"
    /\ pc = "dataset"
    /\ LET r == lb_create_dataset(warehouse)
       IN  /\ warehouse' = r.warehouse
           /\ raised' = IF r.raised THEN "create_dataset" ELSE raised
           /\ pc' = IF r.raised THEN "crashed" ELSE "table"
    /\ lastCall' = NoCall
    /\ UNCHANGED <<clock, files, objects, run, script, env, weather_data,
                   local_file, gcs_uri, effects, history>>

lb_main_table ==
    /\ script = "lb"
    /\ pc = "table"
    /\ LET r == lb_create_table(warehouse)
       IN  /\ warehouse' = r.warehouse
           /\ raised' = IF r.raised THEN "create_table" ELSE raised
           /\ pc' = IF r.raised THEN "crashed" ELSE "load"
    /\ lastCall' = NoCall
    /\ UNCHANGED <<clock, files, objects, run, script, env, weather_data,
                   local_file, gcs_uri, effects, history>>

lb_main_load ==
    /\ script = "lb"
    /\ pc = "load"
    /\ \E job_ok \in BOOLEAN :
         LET r == lb_load_from_gcs_to_bigquery(None, warehouse, objects, job_ok)
         IN  /\ warehouse' = r.warehouse
             /\ effects' = effects \cup r.effects
             /\ raised' = IF r.raised THEN "load_from_gcs_to_bigquery" ELSE raised
             /\ pc' = IF r.raised THEN "crashed" ELSE "query"
    /\ lastCall' = NoCall
    /\ UNCHANGED <<clock, files, objects, run, script, env, weather_data,
                   local_file, gcs_uri, history>>

lb_main_query ==
    /\ script = "lb"
    /\ pc = "query"
    /\ LET r == lb_query_latest_data(warehouse)
       IN  /\ raised' = IF r.raised THEN "query_latest_data" ELSE raised
           /\ pc' = IF r.raised THEN "crashed" ELSE "done"
    /\ lastCall' = NoCall
    /\ UNCHANGED <<clock, files, objects, warehouse, run, script, env,
                   weather_data, local_file, gcs_uri, effects, history>>

\* ---- load_to_bigquery.py: the setup operations invoked on their own ----

\* second: the previous step was an invocation of the same operation
invoke_create_dataset ==
    /\ pc \in Finished
    /\ LET r == lb_create_dataset(warehouse)
       IN  /\ warehouse' = r.warehouse
           /\ lastCall' = [op |-> "create_dataset", raised |-> r.raised,
                           second |-> lastCall.op = "create_dataset",
                           before |-> warehouse, after |-> r.warehouse]
    /\ UNCHANGED <<clock, files, objects, run, script, env, pc, weather_data,
                   local_file, gcs_uri, effects, raised, history>>

invoke_create_table ==
    /\ pc \in Finished
    /\ LET r == lb_create_table(warehouse)
       IN  /\ warehouse' = r.warehouse
           /\ lastCall' = [op |-> "create_table", raised |-> r.raised,
                           second |-> lastCall.op = "create_table",
                           before |-> warehouse, after |-> r.warehouse]
    /\ UNCHANGED <<clock, files, objects, run, script, env, pc, weather_data,
                   local_file, gcs_uri, effects, raised, history>>

\* ---- specification ----

Next ==
    \/ cp_start \/ cp_main_fetch \/ cp_main_save \/ cp_main_upload \/ cp_main_load
    \/ fu_start \/ fu_main_fetch \/ fu_main_save \/ fu_main_upload
    \/ fw_start \/ fw_main_fetch
    \/ lb_start \/ lb_main_dataset \/ lb_main_table \/ lb_main_load \/ lb_main_query
    \/ invoke_create_dataset \/ invoke_create_table

Spec == Init /\ [][Next]_vars

\* ---- properties ----

Configured == env.project /\ env.bucket

\* C1: in every record returned by fetch_weather of complete_pipeline.py and
\* fetch_and_upload.py, date followed by time, parsed, is the timestamp
\* truncated to the second, whatever the clock does while the record is built.
C1_DateTimeOfTimestamp ==
    (script \in {"cp", "fu"} /\ weather_data # None) =>
        weather_data[1].date \o weather_data[1].time
            = SubSeq(weather_data[1].timestamp, 1, 6)

\* C2: the year, month and day of the path of every staged object are the UTC
\* date of the timestamp of the record it holds, whatever the clock does
\* between fetch and upload.
C2_BlobDateOfTimestamp ==
    \A p \in DOMAIN objects :
        objects[p] # <<>> =>
            <<p.year, p.month, p.day>> = SubSeq(objects[p][1].timestamp, 1, 3)

\* C3: the YYYYMMDD_HHMMSS of the name of every local artifact is the timestamp,
\* to the second, of the record stored in it, whatever the clock does between
\* fetch and save.
C3_FileNameOfTimestamp ==
    \A n \in DOMAIN files :
        files[n] # <<>> => n.stamp = SubSeq(files[n][1].timestamp, 1, 6)

\* C4: a run whose fetch_weather yields no record is over at once and has
\* written no local artifact, uploaded no object and submitted no load.
C4_NoRecordShortCircuits ==
    (script \in {"cp", "fu", "fw"} /\ pc # "fetch" /\ weather_data = None) =>
        /\ pc \in {"done", "crashed"}
        /\ effects = {}
        /\ local_file = None
        /\ gcs_uri = None

C4_Witness ==
    /\ script = "cp"
    /\ pc = "done"
    /\ weather_data = None
    /\ Configured
    /\ BIGQUERY_TABLE \in warehouse.tables

\* C5: fetch_weather never raises to its caller, in any of the three scripts:
\* no run ends with an exception that left fetch_weather.
C5_FetcherNeverRaises == raised # "fetch_weather"

\* C6: in a run of complete_pipeline.main with GCP_PROJECT_ID or
\* GCS_BUCKET_NAME not configured, once upload_to_gcs has been reached and has
\* returned, it returned None without any object-store call, no load was
\* attempted, the local artifact holds the record and the run has completed.
C6_UnconfiguredSkipsStaging ==
    (script = "cp" /\ ~Configured /\ local_file # None /\ pc # "upload") =>
        /\ pc = "done"
        /\ raised = "none"
        /\ gcs_uri = None
        /\ effects = {"file_written"}
        /\ local_file[1] \in DOMAIN files
        /\ files[local_file[1]] = weather_data

C6_Witness ==
    /\ script = "cp"
    /\ ~Configured
    /\ env.project
    /\ local_file # None
    /\ pc = "done"
    /\ BIGQUERY_TABLE \in warehouse.tables

IdempotentCall ==
    /\ ~lastCall.raised
    /\ lastCall.after = lastCall.before
    /\ lastCall.op = "create_dataset" =>
           lastCall.after.datasets = {BIGQUERY_DATASET}
    /\ lastCall.op = "create_table" =>
           lastCall.after.tables = {BIGQUERY_TABLE}

\* C7, as claimed: from any warehouse state, the second of two create_dataset
\* or create_table calls in sequence raises no error, leaves the warehouse as
\* it found it, and exactly one dataset (table) of that name exists.
C7_IdempotentFromAnyState == lastCall.second => IdempotentCall

\* C7, amended: the same, for create_table only from warehouse states in which
\* the dataset exists.  create_table creates no dataset, so the dataset exists
\* before the first call exactly if it exists before the second.
C7_IdempotentGivenDataset ==
    (/\ lastCall.second
     /\ lastCall.op = "create_table" =>
            BIGQUERY_DATASET \in lastCall.before.datasets)
        => IdempotentCall

C7_Witness ==
    /\ lastCall.second
    /\ lastCall.op = "create_table"
    /\ BIGQUERY_DATASET \in lastCall.before.datasets
    /\ lastCall.before.rows # <<>>

\* C8: when the fetches of the runs so far are spaced at least one second
\* apart, no two runs wrote the same local file name nor the same object path.
C8_ArtifactPathsUnique ==
    (\A k \in 1..(Len(history) - 1) :
        AtLeastOneSecondApart(history[k].at, history[k + 1].at))
    => \A i, j \in DOMAIN history :
          i < j =>
            /\ (history[i].name # None /\ history[j].name # None) =>
                   history[i].name # history[j].name
            /\ (history[i].blob # None /\ history[j].blob # None) =>
                   history[i].blob # history[j].blob

\* C9: every step leaves the rows the table held in place and unchanged: a
\* load only adds rows.
C9_AppendOnly ==
    [][/\ Len(warehouse'.rows) >= Len(warehouse.rows)
       /\ SubSeq(warehouse'.rows, 1, Len(warehouse.rows)) = warehouse.rows]_vars

\* a load has succeeded on a table that held rows: the table holds more rows
\* than the objects one load can bring
C9_Witness ==
    /\ pc = "done"
    /\ "bq_load" \in effects
    /\ "bq_load_failed" \notin effects
    /\ Len(warehouse.rows) > Cardinality(DOMAIN objects)

\* C10: a run whose bulk load failed has printed the remediation hint and goes
\* on to the end of its main instead of ending with an exception.
C10_FailedLoadDoesNotCrash ==
    "bq_load_failed" \in effects =>
        /\ "hint" \in effects
        /\ pc # "crashed"

\* the current run has called the object store and the upload has failed
UploadFailed ==
    /\ script \in {"cp", "fu"}
    /\ pc # "upload"
    /\ "gcs_call" \in effects
    /\ gcs_uri = None

\* C11: a run whose upload to the object store failed ends normally at the end
\* of its main, the local artifact written by save_locally still holds the
\* record, and no warehouse load was submitted.
C11_StagingFailureNonFatal ==
    UploadFailed =>
        /\ pc = "done"
        /\ raised = "none"
        /\ effects = {"file_written", "gcs_call"}
        /\ local_file # None
        /\ local_file[1] \in DOMAIN files
        /\ files[local_file[1]] = weather_data

C11_Witness ==
    /\ UploadFailed
    /\ script = "cp"
    /\ pc = "done"
    /\ weather_data # None
    /\ BIGQUERY_TABLE \in warehouse.tables

====
